---- MODULE Spec2Model ----
(***************************************************************************)
(* gorm-plus: the generic repository Repo[T] of src/gorm_plus.go, its      *)
(* Scope constructors, and the part of the relational-mapping collaborator *)
(* (statement building and execution against one table) that the           *)
(* repository's operations drive.                                          *)
(*                                                                         *)
(* A Scope is a record naming the constructor that built it and its        *)
(* argument; applying it (ApplyScope) does to the statement what the       *)
(* closure of the constructor does to *gorm.DB.  Every operation is one    *)
(* action that records, in `call`, its arguments, what it returned and the *)
(* statements it handed to the collaborator, in order; Return is the       *)
(* caller taking the result, after which the next call can be made.        *)
(***************************************************************************)
EXTENDS Integers, Sequences, FiniteSets, TLC

VARIABLES
    table,  \* the committed rows of T's table: id -> [age, deleted]
    txn,    \* the transaction of Transact: [open, delta, base, direct, shadow]
    cfg,    \* what is fixed at construction: [soft, allowGlobal, db]
    call,   \* the call that has just returned, or Idle
    pg,     \* the Page call between its count and its fetch, or NoPage
    slice   \* a scope slice the caller keeps and passes whole (s...):
            \* [arr, len], arr its backing array up to its capacity

vars == <<table, txn, cfg, call, pg, slice>>

----------------------------------------------------------------------------
(* Bounds of the model *)

MaxRows == 2

MaxScopes == 2

\* The width of Go's int in the model: two's complement, IntBits bits.
IntBits == 16

Ages == {1, 2}

MaxInt == 2 ^ (IntBits - 1) - 1

MinInt == -(2 ^ (IntBits - 1))

\* An int result as the machine keeps it.
Wrap(x) == ((x - MinInt) % (2 ^ IntBits)) + MinInt

----------------------------------------------------------------------------
(* Errors: the four of the package, nil, and the collaborator's *)

ErrInvalidType == "ErrInvalidType"

ErrNotFound == "ErrNotFound"

ErrTxRequired == "ErrTxRequired"

ErrDangerous == "ErrDangerous"

NoError == "nil"

ErrRecordNotFound == "gorm.ErrRecordNotFound"

ErrMissingWhereClause == "gorm.ErrMissingWhereClause"

ErrDatabase == "database error"

\* reflect.Value.Slice with a negative bound.
PanicSlice == "panic: reflect: slice index out of bounds"

----------------------------------------------------------------------------
(* Scopes *)

NilScope == [kind |-> "nil", c |-> "", n |-> 0]

Where(query) == [kind |-> "Where", c |-> query, n |-> 0]

WhereEq(m) == [kind |-> "WhereEq", c |-> m, n |-> 0]

Order(order) == [kind |-> "Order", c |-> order, n |-> 0]

Select(cols) == [kind |-> "Select", c |-> cols, n |-> 0]

Limit(n) == [kind |-> "Limit", c |-> "", n |-> n]

Offset(n) == [kind |-> "Offset", c |-> "", n |-> n]

WithDeleted == [kind |-> "WithDeleted", c |-> "", n |-> 0]

OnlyDeleted == [kind |-> "OnlyDeleted", c |-> "", n |-> 0]

\* The closure FirstForUpdate and FindForUpdate append.
Locking == [kind |-> "Locking", c |-> "UPDATE", n |-> 0]

DeletedCond == "deleted_at IS NOT NULL"

\* The limit of a statement that has none: no int.
NoLimit == MinInt - 1

\* A statement on handle h with nothing added to it.
\* win: the statement has a LIMIT clause, which holds both limit and offset.
NewStatement(h) ==
    [h |-> h, verb |-> "", conds |-> <<>>, limit |-> NoLimit, offset |-> 0,
     win |-> FALSE, order |-> <<>>, sel |-> <<>>, unscoped |-> FALSE,
     lock |-> FALSE]

\* db.Limit(n) and db.Offset(n) merge into the LIMIT clause the statement
\* has: a limit of 0 does not replace a limit already set, an offset of 0
\* does not replace a positive offset, a negative offset clears it.  Any
\* other value replaces the earlier one.
KeepLimit(db, n) ==
    IF ~db.win THEN [db EXCEPT !.limit = n, !.offset = 0, !.win = TRUE]
    ELSE [db EXCEPT !.limit = IF @ # NoLimit THEN @ ELSE n,
                    !.offset = IF @ > 0 THEN @ ELSE 0]

MergeLimit(db, n) ==
    IF ~db.win THEN [db EXCEPT !.limit = n, !.offset = 0, !.win = TRUE]
    ELSE [db EXCEPT !.limit = IF n = 0 /\ @ # NoLimit THEN @ ELSE n,
                    !.offset = IF @ > 0 THEN @ ELSE 0]

MergeOffset(db, n) ==
    IF ~db.win THEN [db EXCEPT !.offset = n, !.win = TRUE]
    ELSE [db EXCEPT !.offset = IF n = 0 /\ @ > 0 THEN @
                               ELSE IF n < 0 THEN 0 ELSE n]

\* s(db) for a non-nil scope s.
ApplyScope(s, db) ==
    CASE s.kind \in {"Where", "WhereEq"} -> [db EXCEPT !.conds = Append(@, s.c)]
      [] s.kind = "Order" -> [db EXCEPT !.order = Append(@, s.c)]
      [] s.kind = "Select" -> [db EXCEPT !.sel = <<s.c>>]
      [] s.kind = "Limit" -> MergeLimit(db, s.n)
      [] s.kind = "Offset" -> MergeOffset(db, s.n)
      [] s.kind = "WithDeleted" -> [db EXCEPT !.unscoped = TRUE]
      [] s.kind = "OnlyDeleted" ->
            [db EXCEPT !.unscoped = TRUE, !.conds = Append(@, DeletedCond)]
      [] s.kind = "Locking" -> [db EXCEPT !.lock = TRUE]
      [] OTHER -> db

\* The loop of sc and scWithTX: every non-nil scope, in order.
RECURSIVE ApplyScopes(_, _)
ApplyScopes(db, scopes) ==
    IF scopes = <<>> THEN db
    ELSE LET s == Head(scopes)
         IN  ApplyScopes(IF s # NilScope THEN ApplyScope(s, db) ELSE db,
                         Tail(scopes))

NilTx == "nil"

Tx == "tx"

Handles == {NilTx, Tx}

\* r.db, the session-scoped handle NewRepo stored.
RepoDB == "db"

\* The handle NewRepo stores: db.Session(&gorm.Session{NewDB: false}) of the
\* handle it was given, which carries no conditions.
Session == NewStatement(RepoDB)

\* db.WithContext(ctx).Model(new(T)): a statement of the call's own, bound
\* to T's table, copied from the statement of the handle it is derived from.
Model(h) == IF h = RepoDB THEN cfg.db ELSE NewStatement(h)

scOnOpenTx(scopes) ==
    ApplyScopes(Model(IF txn.open THEN Tx ELSE RepoDB), scopes)

sc(scopes) == ApplyScopes(Model(RepoDB), scopes)

scOnRepo(db, scopes) == ApplyScopes(Model(RepoDB), scopes)

scWithTX(db, scopes) ==
    ApplyScopes(Model(IF db = NilTx THEN RepoDB ELSE db), scopes)

----------------------------------------------------------------------------
(* The scope lists the calls are made with *)

ScopeAlphabet ==
    {NilScope, Where("age = 1"), WhereEq("id = 1"), Where("invalid_column = 1"),
     Order("id DESC"), Select("age"), Limit(1), Offset(1), WithDeleted,
     OnlyDeleted}

SeqsUpTo(S, n) == UNION {[1..k -> S] : k \in 0..n}

ScopeLists == SeqsUpTo(ScopeAlphabet, MaxScopes)

----------------------------------------------------------------------------
(* The collaborator: rows, and the execution of a statement *)

Rows == [age : Ages, deleted : BOOLEAN]

Tables == UNION {[D -> Rows] : D \in SUBSET (1..MaxRows)}

EmptyTable == [id \in {} |-> [age |-> 1, deleted |-> FALSE]]

\* The rows an open transaction sees: the committed rows under its own
\* uncommitted writes (delta: id -> [present, row]).
Overlay(tbl, delta) ==
    LET gone == {id \in DOMAIN delta : ~delta[id].present}
        D == (DOMAIN tbl \cup DOMAIN delta) \ gone
    IN  [id \in D |-> IF id \in DOMAIN delta THEN delta[id].row ELSE tbl[id]]

\* The table a statement on handle h reads and writes: the open
\* transaction's view for the transaction's handle, the committed rows
\* otherwise.
TableOf(h) == IF h = Tx /\ txn.open THEN Overlay(table, txn.delta) ELSE table

Holds(c, id, r) ==
    CASE c = "age = 1" -> r.age = 1
      [] c = "id = 1" -> id = 1
      [] c = "id = 2" -> id = 2
      [] c = "id = 3" -> id = 3
      [] c = DeletedCond -> r.deleted
      [] OTHER -> FALSE

\* A statement the database rejects: a column the table does not have.
Malformed(q) ==
    \E i \in 1..Len(q.conds) :
        \/ q.conds[i] = "invalid_column = 1"
        \/ q.conds[i] = DeletedCond /\ ~cfg.soft

\* ORDER BY a column the table does not have: rejected by the statements
\* that keep their ordering, which a count does not.
MalformedOrder(q) == \E i \in 1..Len(q.order) : q.order[i] = "invalid_column"

VisibleAlways(q, r) == TRUE

\* The soft-delete filter the collaborator adds unless the statement is
\* Unscoped.
Visible(q, r) == cfg.soft => (q.unscoped \/ ~r.deleted)

MatchIds(q, tbl) ==
    {id \in DOMAIN tbl :
        /\ Visible(q, tbl[id])
        /\ \A i \in 1..Len(q.conds) : Holds(q.conds[i], id, tbl[id])}

\* The collaborator refuses an update or delete without conditions unless
\* the handle allows global updates.
MissingWhere(q) == q.conds = <<>> /\ ~cfg.allowGlobal

RECURSIVE SortedIds(_, _)
SortedIds(S, desc) ==
    IF S = {} THEN <<>>
    ELSE LET m == CHOOSE x \in S :
                    \A y \in S : IF desc THEN y <= x ELSE x <= y
         IN  <<m>> \o SortedIds(S \ {m}, desc)

\* ORDER BY: the first ordering expression decides; the primary key otherwise.
Descending(q) == q.order # <<>> /\ q.order[1] = "id DESC"

\* LIMIT and OFFSET as the statement is built: a negative limit is no limit,
\* a non-positive offset no offset.
Window(seq, limit, offset) ==
    LET skipped == IF offset > 0 THEN SubSeq(seq, offset + 1, Len(seq)) ELSE seq
    IN  IF limit >= 0 /\ limit < Len(skipped)
        THEN SubSeq(skipped, 1, limit) ELSE skipped

EntityZeroKey(q, id, r) == [id |-> 0, age |-> r.age, deleted |-> r.deleted]

\* A row as it is materialized into T: unselected fields stay zero.
Entity(q, id, r) ==
    IF q.sel = <<>> THEN [id |-> id, age |-> r.age, deleted |-> r.deleted]
    ELSE [id |-> IF q.sel = <<"id">> THEN id ELSE 0,
          age |-> IF q.sel = <<"age">> THEN r.age ELSE 0,
          deleted |-> FALSE]

Hydrate(q, ids, tbl) == [i \in 1..Len(ids) |-> Entity(q, ids[i], tbl[ids[i]])]

\* Find: the matching rows, ordered, windowed.
CollabFind(q, tbl) ==
    IF Malformed(q) \/ MalformedOrder(q) THEN [err |-> ErrDatabase, items |-> <<>>]
    ELSE [err |-> NoError,
          items |-> Hydrate(q, Window(SortedIds(MatchIds(q, tbl), Descending(q)),
                                      q.limit, q.offset), tbl)]

\* First: Limit(1), ordered by primary key after the statement's own order;
\* record-not-found when no row is left.
CollabFirst(q, tbl) ==
    IF Malformed(q) \/ MalformedOrder(q) THEN [err |-> ErrDatabase, items |-> <<>>]
    ELSE LET rows == Window(SortedIds(MatchIds(q, tbl), Descending(q)),
                            1, q.offset)
         IN  IF rows = <<>> THEN [err |-> ErrRecordNotFound, items |-> <<>>]
             ELSE [err |-> NoError, items |-> Hydrate(q, rows, tbl)]

\* Count: SELECT count(*) with the statement's LIMIT and OFFSET, which apply
\* to the one row of the aggregate.
CollabCount(q, tbl) ==
    IF Malformed(q) THEN [err |-> ErrDatabase, total |-> 0]
    ELSE [err |-> NoError,
          total |-> IF q.offset > 0 \/ q.limit = 0 THEN 0
                    ELSE Cardinality(MatchIds(q, tbl))]

CollabUpdateEveryRow(q, value, tbl) ==
    IF Malformed(q) THEN [err |-> ErrDatabase, tbl |-> tbl]
    ELSE IF MissingWhere(q) THEN [err |-> ErrMissingWhereClause, tbl |-> tbl]
    ELSE [err |-> NoError,
          tbl |-> [id \in DOMAIN tbl |-> [tbl[id] EXCEPT !.age = value]]]

\* Update / Updates: the named column of every matching row.
CollabUpdate(q, value, tbl) ==
    IF Malformed(q) THEN [err |-> ErrDatabase, tbl |-> tbl]
    ELSE IF MissingWhere(q) THEN [err |-> ErrMissingWhereClause, tbl |-> tbl]
    ELSE LET hit == MatchIds(q, tbl)
         IN  [err |-> NoError,
              tbl |-> [id \in DOMAIN tbl |->
                         IF id \in hit THEN [tbl[id] EXCEPT !.age = value]
                         ELSE tbl[id]]]

\* Delete: sets the deletion marker when T has one and the statement is not
\* Unscoped, removes the rows otherwise.
CollabDelete(q, tbl) ==
    IF Malformed(q) THEN [err |-> ErrDatabase, tbl |-> tbl]
    ELSE IF MissingWhere(q) THEN [err |-> ErrMissingWhereClause, tbl |-> tbl]
    ELSE LET hit == MatchIds(q, tbl)
         IN  [err |-> NoError,
              tbl |-> IF cfg.soft /\ ~q.unscoped
                      THEN [id \in DOMAIN tbl |->
                              IF id \in hit THEN [tbl[id] EXCEPT !.deleted = TRUE]
                              ELSE tbl[id]]
                      ELSE [id \in DOMAIN tbl \ hit |-> tbl[id]]]

----------------------------------------------------------------------------
(* Calls *)

\* No transaction yet.  Of a transaction, open or ended: delta, its own
\* uncommitted writes; base, the committed rows when it began; direct, the
\* writes made outside it since; shadow, the rows as they would be with
\* every write made since it began applied.
NoTxn == [open |-> FALSE, delta |-> EmptyTable, base |-> EmptyTable,
          direct |-> EmptyTable, shadow |-> EmptyTable]

NoPage == [active |-> FALSE, args |-> <<>>, page |-> 0, pageSize |-> 0,
           total |-> 0, scopes |-> <<>>, stmt |-> NewStatement(RepoDB),
           seen |-> EmptyTable]

\* No slice kept by the caller: every call is made with a list of its own.
NoSlice == [arr |-> <<>>, len |-> 0]

\* append(s, xs...) on the caller's slice: within the capacity the values
\* are written into the backing array after the slice's length; beyond it a
\* new array is allocated and the caller's is left as it was.
AppendInPlace(s, xs) ==
    IF s.len + Len(xs) > Len(s.arr) THEN s
    ELSE [s EXCEPT !.arr = [i \in 1..Len(@) |->
                              IF i > s.len /\ i <= s.len + Len(xs)
                              THEN xs[i - s.len] ELSE @[i]]]

\* The caller's slice after an operation has appended xs to the list it was
\* given: a list with the content of the slice is either the slice itself,
\* passed whole, or a list of the call's own.
Spread(scopes, xs) ==
    IF scopes = SubSeq(slice.arr, 1, slice.len)
    THEN {slice, AppendInPlace(slice, xs)}
    ELSE {slice}

Ret(op, tx, scopes) ==
    [op |-> op, tx |-> tx, scopes |-> scopes, kind |-> "", args |-> <<>>,
     page |-> 0, pageSize |-> 0, err |-> NoError, items |-> <<>>,
     total |-> 0, hasNext |-> FALSE, found |-> FALSE, stmts |-> <<>>,
     stable |-> TRUE, cb |-> NoError, size |-> 0]

Idle == Ret("idle", NilTx, <<>>)

IsAnyError(err, target) == err # NoError

\* errors.Is against the collaborator's sentinel.
Is(err, target) == err = target

\* A write's rows land in the open transaction when the statement runs on
\* its handle and in the committed table otherwise.  A statement outside
\* the transaction that touches a row the transaction has written cannot
\* proceed: the database answers with an error.
Changed(old, new) ==
    {id \in DOMAIN old \cup DOMAIN new :
        id \notin DOMAIN old \/ id \notin DOMAIN new \/ old[id] # new[id]}

DeltaOf(old, new) ==
    [id \in Changed(old, new) |->
        IF id \in DOMAIN new THEN [present |-> TRUE, row |-> new[id]]
        ELSE [present |-> FALSE, row |-> old[id]]]

Blocked(h, old, new) ==
    /\ txn.open
    /\ h # Tx
    /\ Changed(old, new) \cap DOMAIN txn.delta # {}

\* shadow: the rows as they would be with every write of the callback applied.
Store(h, old, new) ==
    IF txn.open /\ h = Tx
    THEN /\ txn' = [txn EXCEPT !.delta = DeltaOf(old, new) @@ @,
                               !.shadow = Overlay(@, DeltaOf(old, new))]
         /\ table' = table
    ELSE /\ table' = new
         /\ txn' = IF txn.open
                   THEN [txn EXCEPT !.direct = DeltaOf(old, new) @@ @,
                                    !.shadow = Overlay(@, DeltaOf(old, new))]
                   ELSE txn

Write(h, r, old, ret) ==
    IF Blocked(h, old, r.tbl)
    THEN /\ call' = [ret EXCEPT !.err = ErrDatabase]
         /\ UNCHANGED <<table, txn>>
    ELSE /\ call' = [ret EXCEPT !.err = r.err]
         /\ Store(h, old, r.tbl)

UpdateColumn(tx, value, scopes) ==
    /\ call = Idle
    /\ IF Len(scopes) = 0
       THEN /\ call' = [Ret("UpdateColumn", tx, scopes) EXCEPT !.err = ErrDangerous]
            /\ UNCHANGED <<table, txn>>
       ELSE LET q == [scWithTX(tx, scopes) EXCEPT !.verb = "Update"]
                old == TableOf(q.h)
            IN  Write(q.h, CollabUpdate(q, value, old), old,
                      [Ret("UpdateColumn", tx, scopes) EXCEPT !.stmts = <<q>>])
    /\ UNCHANGED <<cfg, pg, slice>>

UpdateColumns(tx, updates, scopes) ==
    /\ call = Idle
    /\ IF Len(scopes) = 0
       THEN /\ call' = [Ret("UpdateColumns", tx, scopes) EXCEPT !.err = ErrDangerous]
            /\ UNCHANGED <<table, txn>>
       ELSE LET q == [scWithTX(tx, scopes) EXCEPT !.verb = "Updates"]
                old == TableOf(q.h)
            IN  Write(q.h, CollabUpdate(q, updates.age, old), old,
                      [Ret("UpdateColumns", tx, scopes) EXCEPT !.stmts = <<q>>])
    /\ UNCHANGED <<cfg, pg, slice>>

DeleteUnguarded(tx, scopes) ==
    /\ call = Idle
    /\ LET q == [scWithTX(tx, scopes) EXCEPT !.verb = "Delete"]
           old == TableOf(q.h)
       IN  Write(q.h, CollabDelete(q, old), old,
                 [Ret("Delete", tx, scopes) EXCEPT !.stmts = <<q>>])
    /\ UNCHANGED <<cfg, pg, slice>>

Delete(tx, scopes) ==
    /\ call = Idle
    /\ IF Len(scopes) = 0
       THEN /\ call' = [Ret("Delete", tx, scopes) EXCEPT !.err = ErrDangerous]
            /\ UNCHANGED <<table, txn>>
       ELSE LET q == [scWithTX(tx, scopes) EXCEPT !.verb = "Delete"]
                old == TableOf(q.h)
            IN  Write(q.h, CollabDelete(q, old), old,
                      [Ret("Delete", tx, scopes) EXCEPT !.stmts = <<q>>])
    /\ UNCHANGED <<cfg, pg, slice>>

\* The identity the database gives the next inserted row.
NextId ==
    LET used == DOMAIN table \cup DOMAIN txn.delta \cup {0}
    IN  1 + CHOOSE m \in used : \A x \in used : x <= m

\* Create: one row, on tx when it is not nil and on r.db otherwise; the
\* entity comes back with its identity.
Create(tx, ent) ==
    /\ call = Idle
    /\ NextId <= MaxRows
    /\ LET h == IF tx # NilTx THEN tx ELSE RepoDB
           q == [Model(h) EXCEPT !.verb = "Create"]
           old == TableOf(h)
           row == [age |-> ent.age, deleted |-> ent.deleted]
           new == (NextId :> row) @@ old
       IN  Write(h, [err |-> NoError, tbl |-> new], old,
                 [Ret("Create", tx, <<>>) EXCEPT
                     !.stmts = <<q>>,
                     !.items = <<[id |-> NextId, age |-> ent.age,
                                  deleted |-> ent.deleted]>>])
    /\ UNCHANGED <<cfg, pg, slice>>

\* Update: Save on tx when it is not nil and on r.db otherwise.  Save inserts
\* an entity whose key is zero and otherwise writes every field of the row
\* with the entity's key, inserting the row when there is none.
Update(tx, ent) ==
    /\ call = Idle
    /\ ent.id = 0 => NextId <= MaxRows
    /\ LET h == IF tx # NilTx THEN tx ELSE RepoDB
           q == [Model(h) EXCEPT !.verb = "Save"]
           old == TableOf(h)
           id == IF ent.id = 0 THEN NextId ELSE ent.id
           row == [age |-> ent.age, deleted |-> ent.deleted]
           new == (id :> row) @@ old
       IN  Write(h, [err |-> NoError, tbl |-> new], old,
                 [Ret("Update", tx, <<>>) EXCEPT
                     !.stmts = <<q>>,
                     !.items = <<[id |-> id, age |-> ent.age,
                                  deleted |-> ent.deleted]>>])
    /\ UNCHANGED <<cfg, pg, slice>>

DefaultBatchSize == 1000

\* The chunk size BatchInsert hands to the collaborator; batchSize is the
\* variadic argument, empty when omitted.
BatchSize(batchSize) ==
    LET size == IF Len(batchSize) > 0 THEN batchSize[1] ELSE DefaultBatchSize
    IN  IF size = 0 THEN DefaultBatchSize ELSE size

FirstChunkOnly(ents, size) ==
    IF ents = <<>> THEN <<>>
    ELSE IF Len(ents) <= size THEN <<ents>>
    ELSE <<SubSeq(ents, 1, size)>>

\* The loop of CreateInBatches: for i := 0; i < len; i += size, the chunk
\* [i, min(i + size, len)).
RECURSIVE Chunks(_, _)
Chunks(ents, size) ==
    IF ents = <<>> THEN <<>>
    ELSE IF Len(ents) <= size THEN <<ents>>
    ELSE <<SubSeq(ents, 1, size)>> \o Chunks(SubSeq(ents, size + 1, Len(ents)), size)

\* The chunks inserted one after the other: the rows take the next
\* identities, from first on.
RECURSIVE InsertChunks(_, _, _)
InsertChunks(tbl, chunks, first) ==
    IF chunks = <<>> THEN tbl
    ELSE LET chunk == Head(chunks)
             rows == [id \in first..(first + Len(chunk) - 1) |->
                         [age |-> chunk[id - first + 1], deleted |-> FALSE]]
         IN  InsertChunks(rows @@ tbl, Tail(chunks), first + Len(chunk))

\* BatchInsert: nothing for an empty list; otherwise CreateInBatches on tx
\* when it is not nil and on r.db otherwise, one Create per chunk.  With a
\* negative size the first chunk is the slice [0, size) of ents: the
\* collaborator panics before it inserts anything.
BatchInsert(tx, ents, batchSize) ==
    /\ call = Idle
    /\ NextId + Len(ents) - 1 <= MaxRows
    /\ LET ret == [Ret("BatchInsert", tx, <<>>) EXCEPT
                      !.args = <<Len(ents)>> \o batchSize]
       IN  IF Len(ents) = 0
           THEN /\ call' = ret
                /\ UNCHANGED <<table, txn>>
           ELSE LET h == IF tx # NilTx THEN tx ELSE RepoDB
                    size == BatchSize(batchSize)
                    q == [Model(h) EXCEPT !.verb = "Create"]
                    old == TableOf(h)
                IN  IF size < 0
                    THEN /\ call' = [ret EXCEPT !.err = PanicSlice, !.size = size]
                         /\ UNCHANGED <<table, txn>>
                    ELSE LET chunks == Chunks(ents, size)
                             new == InsertChunks(old, chunks, NextId)
                         IN  Write(h, [err |-> NoError, tbl |-> new], old,
                                   [ret EXCEPT
                                       !.size = size,
                                       !.stmts = [i \in 1..Len(chunks) |-> q],
                                       !.items = [i \in 1..Len(ents) |->
                                                    [id |-> NextId + i - 1,
                                                     age |-> ents[i],
                                                     deleted |-> FALSE]]])
    /\ UNCHANGED <<cfg, pg, slice>>

\* Transact, up to the call of fn: the collaborator begins a transaction.
TransactBegin ==
    /\ call = Idle
    /\ ~txn.open
    /\ txn' = [open |-> TRUE, delta |-> EmptyTable, base |-> table,
               direct |-> EmptyTable, shadow |-> table]
    /\ UNCHANGED <<table, cfg, call, pg, slice>>

RollbackKeepsWrites == Overlay(table, txn.delta)

\* The committed rows after the collaborator's rollback and commit.
Rollback == table

Commit == Overlay(table, txn.delta)

\* Transact, from the return of fn: the collaborator rolls back and returns
\* fn's error, or commits.
TransactEnd(fnErr) ==
    /\ call = Idle
    /\ txn.open
    /\ txn' = [txn EXCEPT !.open = FALSE]
    /\ table' = IF fnErr # NoError THEN Rollback ELSE Commit
    /\ call' = [Ret("Transact", NilTx, <<>>) EXCEPT !.cb = fnErr, !.err = fnErr]
    /\ UNCHANGED <<cfg, pg, slice>>

\* What First returns for a scope list when the Repository's handle reads
\* the rows tbl.
FirstOn(scopes, tbl) ==
    LET r == CollabFirst(sc(scopes), tbl)
    IN  IF r.err # NoError
        THEN IF Is(r.err, ErrRecordNotFound)
             THEN [err |-> ErrNotFound, items |-> <<>>]
             ELSE [err |-> r.err, items |-> <<>>]
        ELSE [err |-> NoError, items |-> r.items]

First(scopes) ==
    /\ call = Idle
    /\ LET q == [sc(scopes) EXCEPT !.verb = "First"]
           r == CollabFirst(q, TableOf(q.h))
           ret == [Ret("First", NilTx, scopes) EXCEPT !.stmts = <<q>>]
       IN  call' = IF r.err # NoError
                   THEN IF Is(r.err, ErrRecordNotFound)
                        THEN [ret EXCEPT !.err = ErrNotFound]
                        ELSE [ret EXCEPT !.err = r.err]
                   ELSE [ret EXCEPT !.items = r.items, !.found = TRUE]
    /\ UNCHANGED <<table, txn, cfg, pg, slice>>

ListChained(scopes) ==
    /\ call = Idle
    /\ LET q == [ApplyScopes(cfg.db, scopes) EXCEPT !.verb = "Find"]
           r == CollabFind(q, TableOf(q.h))
           ret == [Ret("List", NilTx, scopes) EXCEPT !.stmts = <<q>>]
       IN  /\ call' = IF r.err # NoError THEN [ret EXCEPT !.err = r.err]
                      ELSE [ret EXCEPT !.items = r.items]
           /\ cfg' = [cfg EXCEPT !.db = [q EXCEPT !.verb = ""]]
    /\ UNCHANGED <<table, txn, pg, slice>>

List(scopes) ==
    /\ call = Idle
    /\ LET q == [sc(scopes) EXCEPT !.verb = "Find"]
           r == CollabFind(q, TableOf(q.h))
           ret == [Ret("List", NilTx, scopes) EXCEPT !.stmts = <<q>>]
       IN  call' = IF r.err # NoError THEN [ret EXCEPT !.err = r.err]
                   ELSE [ret EXCEPT !.items = r.items]
    /\ UNCHANGED <<table, txn, cfg, pg, slice>>

\* What Count returns for a scope list when the Repository's handle reads
\* the rows tbl.
CountOn(scopes, tbl) ==
    LET r == CollabCount(sc(scopes), tbl)
    IN  IF r.err # NoError THEN [err |-> r.err, total |-> 0]
        ELSE [err |-> NoError, total |-> r.total]

Count(scopes) ==
    /\ call = Idle
    /\ LET q == [sc(scopes) EXCEPT !.verb = "Count"]
           r == CollabCount(q, TableOf(q.h))
           ret == [Ret("Count", NilTx, scopes) EXCEPT !.stmts = <<q>>]
       IN  call' = IF r.err # NoError THEN [ret EXCEPT !.err = r.err]
                   ELSE [ret EXCEPT !.total = r.total]
    /\ UNCHANGED <<table, txn, cfg, pg, slice>>

ExistsSwallowsError(scopes) ==
    /\ call = Idle
    /\ LET q == [ApplyScope(Limit(1), sc(scopes)) EXCEPT !.verb = "Count"]
           r == CollabCount(q, TableOf(q.h))
           ret == [Ret("Exists", NilTx, scopes) EXCEPT !.stmts = <<q>>]
       IN  call' = [ret EXCEPT !.found = (r.total > 0)]
    /\ UNCHANGED <<table, txn, cfg, pg, slice>>

Exists(scopes) ==
    /\ call = Idle
    /\ LET q == [ApplyScope(Limit(1), sc(scopes)) EXCEPT !.verb = "Count"]
           r == CollabCount(q, TableOf(q.h))
           ret == [Ret("Exists", NilTx, scopes) EXCEPT !.stmts = <<q>>]
       IN  call' = IF r.err # NoError THEN [ret EXCEPT !.err = r.err]
                   ELSE [ret EXCEPT !.found = (r.total > 0)]
    /\ UNCHANGED <<table, txn, cfg, pg, slice>>

FirstForUpdate(tx, scopes) ==
    /\ call = Idle
    /\ IF tx = NilTx
       THEN call' = [Ret("FirstForUpdate", tx, scopes) EXCEPT !.err = ErrTxRequired]
       ELSE LET q == [scWithTX(tx, Append(scopes, Locking)) EXCEPT !.verb = "First"]
                r == CollabFirst(q, TableOf(q.h))
                ret == [Ret("FirstForUpdate", tx, scopes) EXCEPT !.stmts = <<q>>]
            IN  call' = IF r.err # NoError
                        THEN IF Is(r.err, ErrRecordNotFound)
                             THEN [ret EXCEPT !.err = ErrNotFound]
                             ELSE [ret EXCEPT !.err = r.err]
                        ELSE [ret EXCEPT !.items = r.items, !.found = TRUE]
    /\ slice' \in IF tx = NilTx THEN {slice} ELSE Spread(scopes, <<Locking>>)
    /\ UNCHANGED <<table, txn, cfg, pg>>

FindForUpdateAnyTx(tx, scopes) ==
    /\ call = Idle
    /\ LET q == [scWithTX(tx, Append(scopes, Locking)) EXCEPT !.verb = "Find"]
           r == CollabFind(q, TableOf(q.h))
           ret == [Ret("FindForUpdate", tx, scopes) EXCEPT !.stmts = <<q>>]
       IN  call' = IF r.err # NoError THEN [ret EXCEPT !.err = r.err]
                   ELSE [ret EXCEPT !.items = r.items]
    /\ slice' \in Spread(scopes, <<Locking>>)
    /\ UNCHANGED <<table, txn, cfg, pg>>

FindForUpdate(tx, scopes) ==
    /\ call = Idle
    /\ IF tx = NilTx
       THEN call' = [Ret("FindForUpdate", tx, scopes) EXCEPT !.err = ErrTxRequired]
       ELSE LET q == [scWithTX(tx, Append(scopes, Locking)) EXCEPT !.verb = "Find"]
                r == CollabFind(q, TableOf(q.h))
                ret == [Ret("FindForUpdate", tx, scopes) EXCEPT !.stmts = <<q>>]
            IN  call' = IF r.err # NoError THEN [ret EXCEPT !.err = r.err]
                        ELSE [ret EXCEPT !.items = r.items]
    /\ slice' \in IF tx = NilTx THEN {slice} ELSE Spread(scopes, <<Locking>>)
    /\ UNCHANGED <<table, txn, cfg, pg>>

\* reflect.TypeOf(zero) for the zero value of a type of the given kind: the
\* zero value of an interface type is the nil interface, whose type is nil.
Kinds ==
    {"struct", "ptr", "string", "int", "bool", "slice", "map", "func",
     "interface"}

NilType == "<nil>"

TypeOf(kind) == IF kind = "interface" THEN NilType ELSE kind

Panic == "panic: nil pointer dereference"

\* Kind() on the nil reflect.Type panics; the call returns nothing.
NewRepo(kind) ==
    /\ call = Idle
    /\ LET t == TypeOf(kind)
           ret == [Ret("NewRepo", NilTx, <<>>) EXCEPT !.kind = kind]
       IN  call' = IF t = NilType THEN [ret EXCEPT !.err = Panic]
                   ELSE IF t = "ptr" THEN [ret EXCEPT !.err = ErrInvalidType]
                   ELSE IF t # "struct" THEN [ret EXCEPT !.err = ErrInvalidType]
                   ELSE [ret EXCEPT !.found = TRUE]
    /\ UNCHANGED <<table, txn, cfg, pg, slice>>

DefaultPageSize == 20

MaxPageSize == 1000

NormalizePage(page) == IF page <= 0 THEN 1 ELSE page

NormalizePageSizeNoCap(pageSize) ==
    IF pageSize <= 0 THEN DefaultPageSize ELSE pageSize

NormalizePageSize(pageSize) ==
    LET ps == IF pageSize <= 0 THEN DefaultPageSize ELSE pageSize
    IN  IF ps > MaxPageSize THEN MaxPageSize ELSE ps

\* (page - 1) * pageSize and page * pageSize, in int.
PageOffset(page, pageSize) == Wrap(Wrap(page - 1) * pageSize)

PageHasNext(page, pageSize, total) == Wrap(page * pageSize) < total

PageCountThenFetch(page, pageSize, scopes) ==
    /\ call = Idle
    /\ ~pg.active
    /\ LET q == [sc(scopes) EXCEPT !.verb = "Count"]
           r == CollabCount(q, TableOf(q.h))
       IN  /\ call' = call
           /\ pg' = [active |-> TRUE, args |-> <<page, pageSize>>,
                     page |-> NormalizePage(page),
                     pageSize |-> NormalizePageSize(pageSize),
                     total |-> r.total, scopes |-> scopes, stmt |-> q,
                     seen |-> TableOf(q.h)]
    /\ UNCHANGED <<table, txn, cfg, slice>>

\* Page, up to and including its Count: on an error the zero PageResult is
\* returned and no fetch is made.
PageCount(page, pageSize, scopes) ==
    /\ call = Idle
    /\ ~pg.active
    /\ LET q == [sc(scopes) EXCEPT !.verb = "Count"]
           r == CollabCount(q, TableOf(q.h))
       IN  IF r.err # NoError
           THEN /\ call' = [Ret("Page", NilTx, scopes) EXCEPT
                               !.args = <<page, pageSize>>,
                               !.err = r.err, !.stmts = <<q>>]
                /\ pg' = NoPage
           ELSE /\ call' = call
                /\ pg' = [active |-> TRUE, args |-> <<page, pageSize>>,
                          page |-> NormalizePage(page),
                          pageSize |-> NormalizePageSize(pageSize),
                          total |-> r.total, scopes |-> scopes, stmt |-> q,
                          seen |-> TableOf(q.h)]
    /\ UNCHANGED <<table, txn, cfg, slice>>

PageFetchSnapshot ==
    /\ call = Idle
    /\ pg.active
    /\ LET offset == PageOffset(pg.page, pg.pageSize)
           q == [sc(pg.scopes \o <<Limit(pg.pageSize), Offset(offset)>>)
                    EXCEPT !.verb = "Find"]
           r == CollabFind(q, pg.seen)
           ret == [Ret("Page", NilTx, pg.scopes) EXCEPT
                      !.args = pg.args, !.stmts = <<pg.stmt, q>>,
                      !.stable = (pg.seen = TableOf(q.h))]
       IN  call' = IF r.err # NoError THEN [ret EXCEPT !.err = r.err]
                   ELSE [ret EXCEPT !.items = r.items,
                                    !.total = pg.total,
                                    !.page = pg.page,
                                    !.pageSize = pg.pageSize,
                                    !.hasNext = PageHasNext(pg.page, pg.pageSize,
                                                            pg.total)]
    /\ pg' = NoPage
    /\ slice' \in Spread(pg.scopes,
                         <<Limit(pg.pageSize),
                           Offset(PageOffset(pg.page, pg.pageSize))>>)
    /\ UNCHANGED <<table, txn, cfg>>

\* Page, from its fetch to its return.
PageFetch ==
    /\ call = Idle
    /\ pg.active
    /\ LET offset == PageOffset(pg.page, pg.pageSize)
           q == [sc(pg.scopes \o <<Limit(pg.pageSize), Offset(offset)>>)
                    EXCEPT !.verb = "Find"]
           r == CollabFind(q, TableOf(q.h))
           ret == [Ret("Page", NilTx, pg.scopes) EXCEPT
                      !.args = pg.args, !.stmts = <<pg.stmt, q>>,
                      !.stable = (pg.seen = TableOf(q.h))]
       IN  call' = IF r.err # NoError THEN [ret EXCEPT !.err = r.err]
                   ELSE [ret EXCEPT !.items = r.items,
                                    !.total = pg.total,
                                    !.page = pg.page,
                                    !.pageSize = pg.pageSize,
                                    !.hasNext = PageHasNext(pg.page, pg.pageSize,
                                                            pg.total)]
    /\ pg' = NoPage
    /\ slice' \in Spread(pg.scopes,
                         <<Limit(pg.pageSize),
                           Offset(PageOffset(pg.page, pg.pageSize))>>)
    /\ UNCHANGED <<table, txn, cfg>>

\* What Page returns for its arguments when the Repository's handle reads
\* the rows tbl in both of its queries.
PageOn(page, pageSize, scopes, tbl) ==
    LET p == NormalizePage(page)
        ps == NormalizePageSize(pageSize)
        zero == [err |-> NoError, items |-> <<>>, total |-> 0, hasNext |-> FALSE]
        c == CollabCount(sc(scopes), tbl)
        q == sc(scopes \o <<Limit(ps), Offset(PageOffset(p, ps))>>)
        r == CollabFind(q, tbl)
    IN  IF c.err # NoError THEN [zero EXCEPT !.err = c.err]
        ELSE IF r.err # NoError THEN [zero EXCEPT !.err = r.err]
        ELSE [err |-> NoError, items |-> r.items, total |-> c.total,
              hasNext |-> PageHasNext(p, ps, c.total)]

\* The caller takes the result.
Return ==
    /\ call # Idle
    /\ call' = Idle
    /\ UNCHANGED <<table, txn, cfg, pg, slice>>

----------------------------------------------------------------------------
(* The repository's mutations, called with any scope list on either handle *)

Init ==
    /\ cfg \in [soft : BOOLEAN, allowGlobal : BOOLEAN, db : {Session}]
    /\ table \in {t \in Tables : \A id \in DOMAIN t : t[id].deleted => cfg.soft}
    /\ txn = NoTxn
    /\ call = Idle
    /\ pg = NoPage
    /\ slice = NoSlice

Next ==
    \/ call = Idle /\ \E tx \in Handles, v \in Ages, scopes \in ScopeLists :
          UpdateColumn(tx, v, scopes)
    \/ call = Idle /\ \E tx \in Handles, v \in Ages, scopes \in ScopeLists :
          UpdateColumns(tx, [age |-> v], scopes)
    \/ call = Idle /\ \E tx \in Handles, scopes \in ScopeLists :
          Delete(tx, scopes)
    \/ call = Idle /\ \E kind \in Kinds : NewRepo(kind)
    \/ Return

Spec == Init /\ [][Next]_vars

(* The repository's reads *)

NextRead ==
    \/ call = Idle /\ \E scopes \in ScopeLists : First(scopes)
    \/ call = Idle /\ \E scopes \in ScopeLists : List(scopes)
    \/ call = Idle /\ \E scopes \in ScopeLists : Count(scopes)
    \/ call = Idle /\ \E scopes \in ScopeLists : Exists(scopes)
    \/ call = Idle /\ \E tx \in Handles, scopes \in ScopeLists :
          FirstForUpdate(tx, scopes)
    \/ call = Idle /\ \E tx \in Handles, scopes \in ScopeLists :
          FindForUpdate(tx, scopes)
    \/ Return

SpecRead == Init /\ [][NextRead]_vars

(* Transact, with a callback that writes on the transaction's handle and
   on nil *)

FnError == "fn error"

TxScopeLists == {<<WhereEq("id = 1")>>, <<Where("age = 1")>>, <<WithDeleted>>}

InitTx == Init /\ cfg = [soft |-> TRUE, allowGlobal |-> FALSE, db |-> Session]

NextTx ==
    \/ TransactBegin
    \/ call = Idle /\ txn.open /\ \E tx \in Handles, age \in Ages :
          Create(tx, [age |-> age, deleted |-> FALSE])
    \/ call = Idle /\ txn.open
          /\ \E tx \in Handles, v \in Ages, scopes \in TxScopeLists :
                UpdateColumn(tx, v, scopes)
    \/ call = Idle /\ txn.open /\ \E tx \in Handles, scopes \in TxScopeLists :
          Delete(tx, scopes)
    \/ \E fnErr \in {NoError, FnError} : TransactEnd(fnErr)
    \/ Return

SpecTx == InitTx /\ [][NextTx]_vars

(* Page, over the int values where its arithmetic changes *)

PageInputs == {MinInt, -1, 0, 1, 2, 3, MaxInt}

PageSizeInputs == {MinInt, -1, 0, 1, 2, MaxPageSize, MaxPageSize + 1, MaxInt}

PageScopeLists ==
    SeqsUpTo({Where("age = 1"), Where("invalid_column = 1"), Order("id DESC"),
              Limit(1), Offset(1)}, MaxScopes)

InitPage == Init /\ cfg = [soft |-> TRUE, allowGlobal |-> FALSE, db |-> Session]

NextPage ==
    \/ call = Idle /\ ~pg.active
          /\ \E page \in PageInputs, pageSize \in PageSizeInputs,
                scopes \in PageScopeLists :
                PageCount(page, pageSize, scopes)
    \/ PageFetch
    \/ Return

SpecPage == InitPage /\ [][NextPage]_vars

(* Page, with another caller inserting and deleting on the Repository's own
   handle between the count and the fetch *)

RaceScopeLists == {<<>>, <<Where("age = 1")>>}

InitRace == Init /\ cfg = [soft |-> TRUE, allowGlobal |-> FALSE, db |-> Session]

NextRace ==
    \/ call = Idle /\ ~pg.active
          /\ \E page \in {1, 2}, pageSize \in {1, 2}, scopes \in RaceScopeLists :
                PageCount(page, pageSize, scopes)
    \/ call = Idle /\ \E age \in Ages :
          Create(NilTx, [age |-> age, deleted |-> FALSE])
    \/ call = Idle /\ \E scopes \in TxScopeLists : Delete(NilTx, scopes)
    \/ PageFetch
    \/ Return

SpecRace == InitRace /\ [][NextRace]_vars

(* The six writes: on the Repository's own handle before Transact and
   inside its callback, and on the transaction's handle inside the callback *)

Callers == IF txn.open THEN Handles ELSE {NilTx}

\* No write is made once Transact has returned.
Writing == call = Idle /\ (txn = NoTxn \/ txn.open)

\* An entity not yet stored (key zero) and one with the key of the first row.
Entities ==
    {[id |-> 0, age |-> 1, deleted |-> FALSE],
     [id |-> 1, age |-> 2, deleted |-> FALSE]}

EntityLists == {<<>>, <<1>>, <<1, 2>>}

InitWrite ==
    /\ Init
    /\ cfg = [soft |-> TRUE, allowGlobal |-> FALSE, db |-> Session]
    /\ \A id \in DOMAIN table : ~table[id].deleted

NextWrite ==
    \/ txn = NoTxn /\ TransactBegin
    \/ Writing /\ \E tx \in Callers, age \in Ages :
          Create(tx, [age |-> age, deleted |-> FALSE])
    \/ Writing /\ \E tx \in Callers, ent \in Entities : Update(tx, ent)
    \/ Writing /\ \E tx \in Callers, v \in Ages, scopes \in TxScopeLists :
          UpdateColumn(tx, v, scopes)
    \/ Writing /\ \E tx \in Callers, v \in Ages, scopes \in TxScopeLists :
          UpdateColumns(tx, [age |-> v], scopes)
    \/ Writing /\ \E tx \in Callers, scopes \in TxScopeLists :
          Delete(tx, scopes)
    \/ Writing /\ \E tx \in Callers, ents \in EntityLists,
                     batchSize \in {<<>>, <<1>>} :
          BatchInsert(tx, ents, batchSize)
    \/ \E fnErr \in {NoError, FnError} : TransactEnd(fnErr)
    \/ Return

SpecWrite == InitWrite /\ [][NextWrite]_vars

(* Reads and Page called with two scopes of the same kind *)

SameKindAlphabet ==
    {Where("age = 1"), WhereEq("id = 1"), Order("id DESC"), Order("id"),
     Select("age"), Select("id"), Limit(1), Limit(2), Offset(1), Offset(2)}

SameKindLists == SeqsUpTo(SameKindAlphabet, MaxScopes)

InitSame ==
    /\ Init
    /\ cfg = [soft |-> TRUE, allowGlobal |-> FALSE, db |-> Session]
    /\ \A id \in DOMAIN table : ~table[id].deleted

NextSame ==
    \/ call = Idle /\ ~pg.active /\ \E scopes \in SameKindLists : List(scopes)
    \/ call = Idle /\ ~pg.active /\ \E scopes \in SameKindLists : Exists(scopes)
    \/ call = Idle /\ ~pg.active
          /\ \E page \in {1, 2}, pageSize \in {1, 2}, scopes \in SameKindLists :
                PageCount(page, pageSize, scopes)
    \/ PageFetch
    \/ Return

SpecSame == InitSame /\ [][NextSame]_vars

(* Count and Exists, called with the same scope lists *)

CountAlphabet ==
    {Where("age = 1"), Where("invalid_column = 1"), Limit(0), Limit(1),
     Offset(1), WithDeleted}

CountLists == SeqsUpTo(CountAlphabet, MaxScopes)

InitCount == Init /\ cfg = [soft |-> TRUE, allowGlobal |-> FALSE, db |-> Session]

NextCount ==
    \/ call = Idle /\ \E scopes \in CountLists : Count(scopes)
    \/ call = Idle /\ \E scopes \in CountLists : Exists(scopes)
    \/ Return

SpecCount == InitCount /\ [][NextCount]_vars

(* BatchInsert, on either handle, over the batch sizes where its branches
   change *)

BatchSizes ==
    {<<>>, <<0>>, <<1>>, <<2>>, <<DefaultBatchSize>>, <<-1>>, <<2, -1>>}

BatchLists == SeqsUpTo(Ages, MaxRows)

InitBatch ==
    /\ Init
    /\ cfg = [soft |-> TRUE, allowGlobal |-> FALSE, db |-> Session]
    /\ \A id \in DOMAIN table : ~table[id].deleted

NextBatch ==
    \/ txn = NoTxn /\ TransactBegin
    \/ Writing /\ \E tx \in Callers, ents \in BatchLists,
                     batchSize \in BatchSizes :
          BatchInsert(tx, ents, batchSize)
    \/ \E fnErr \in {NoError, FnError} : TransactEnd(fnErr)
    \/ Return

SpecBatch == InitBatch /\ [][NextBatch]_vars

(* Create, on either handle, and First by the key of what was created *)

\* The equality scope on the key id.
KeyEq(id) ==
    WhereEq(CASE id = 1 -> "id = 1" [] id = 2 -> "id = 2" [] OTHER -> "id = 3")

Keys == {KeyEq(id) : id \in 1..MaxRows}

InitRound == Init /\ cfg = [soft |-> TRUE, allowGlobal |-> FALSE, db |-> Session]

NextRound ==
    \/ txn = NoTxn /\ TransactBegin
    \/ Writing /\ \E tx \in Callers, ent \in Rows : Create(tx, ent)
    \/ call = Idle /\ \E key \in Keys : First(<<key>>)
    \/ \E fnErr \in {NoError, FnError} : TransactEnd(fnErr)
    \/ Return

SpecRound == InitRound /\ [][NextRound]_vars

(* Calls on one Repository that overlap: a Page between its count and its
   fetch while other reads are made, on the Repository's handle and inside
   a transaction *)

LeakAlphabet == {Where("age = 1"), Order("id DESC"), Limit(1)}

LeakLists == SeqsUpTo(LeakAlphabet, MaxScopes)

InitLeak ==
    /\ Init
    /\ cfg = [soft |-> TRUE, allowGlobal |-> FALSE, db |-> Session]
    /\ \A id \in DOMAIN table : ~table[id].deleted

NextLeak ==
    \/ txn = NoTxn /\ TransactBegin
    \/ call = Idle /\ \E scopes \in LeakLists : List(scopes)
    \/ call = Idle /\ \E scopes \in LeakLists : Exists(scopes)
    \/ call = Idle /\ txn.open
          /\ \E scopes \in LeakLists : FindForUpdate(Tx, scopes)
    \/ call = Idle /\ ~pg.active
          /\ \E scopes \in LeakLists : PageCount(1, 1, scopes)
    \/ PageFetch
    \/ Return

SpecLeak == InitLeak /\ [][NextLeak]_vars

(* Every operation that reads, and two that write, with statements the
   database rejects: a condition on a column the table does not have, which
   fails every statement, and an ordering by one, which fails a fetch and
   not a count *)

ErrAlphabet ==
    {Where("age = 1"), Where("invalid_column = 1"), Order("invalid_column")}

ErrLists == SeqsUpTo(ErrAlphabet, MaxScopes)

InitErr ==
    /\ Init
    /\ cfg = [soft |-> TRUE, allowGlobal |-> FALSE, db |-> Session]
    /\ \A id \in DOMAIN table : ~table[id].deleted

NextErr ==
    \/ call = Idle /\ ~pg.active /\ \E scopes \in ErrLists : First(scopes)
    \/ call = Idle /\ ~pg.active /\ \E scopes \in ErrLists : List(scopes)
    \/ call = Idle /\ ~pg.active /\ \E scopes \in ErrLists : Count(scopes)
    \/ call = Idle /\ ~pg.active /\ \E scopes \in ErrLists : Exists(scopes)
    \/ call = Idle /\ ~pg.active
          /\ \E tx \in Handles, scopes \in ErrLists : FirstForUpdate(tx, scopes)
    \/ call = Idle /\ ~pg.active
          /\ \E tx \in Handles, scopes \in ErrLists : FindForUpdate(tx, scopes)
    \/ call = Idle /\ ~pg.active
          /\ \E scopes \in ErrLists : UpdateColumn(NilTx, 2, scopes)
    \/ call = Idle /\ ~pg.active /\ \E scopes \in ErrLists : Delete(NilTx, scopes)
    \/ call = Idle /\ ~pg.active
          /\ \E scopes \in ErrLists : PageCount(1, 1, scopes)
    \/ PageFetch
    \/ Return

SpecErr == InitErr /\ [][NextErr]_vars

(* Every scoped operation on tables that may hold no row the scopes match,
   the empty table included *)

ZeroAlphabet == {Where("age = 1"), WhereEq("id = 2"), Limit(1), WithDeleted}

ZeroLists == SeqsUpTo(ZeroAlphabet, MaxScopes)

InitZero == Init /\ cfg = [soft |-> TRUE, allowGlobal |-> FALSE, db |-> Session]

NextZero ==
    \/ call = Idle /\ ~pg.active /\ \E scopes \in ZeroLists : First(scopes)
    \/ call = Idle /\ ~pg.active /\ \E scopes \in ZeroLists : List(scopes)
    \/ call = Idle /\ ~pg.active /\ \E scopes \in ZeroLists : Count(scopes)
    \/ call = Idle /\ ~pg.active /\ \E scopes \in ZeroLists : Exists(scopes)
    \/ call = Idle /\ ~pg.active
          /\ \E scopes \in ZeroLists : FirstForUpdate(Tx, scopes)
    \/ call = Idle /\ ~pg.active
          /\ \E scopes \in ZeroLists : FindForUpdate(Tx, scopes)
    \/ call = Idle /\ ~pg.active
          /\ \E scopes \in ZeroLists : UpdateColumn(NilTx, 2, scopes)
    \/ call = Idle /\ ~pg.active
          /\ \E scopes \in ZeroLists : UpdateColumns(NilTx, [age |-> 2], scopes)
    \/ call = Idle /\ ~pg.active /\ \E scopes \in ZeroLists : Delete(NilTx, scopes)
    \/ call = Idle /\ ~pg.active
          /\ \E scopes \in ZeroLists : PageCount(1, 1, scopes)
    \/ PageFetch
    \/ Return

SpecZero == InitZero /\ [][NextZero]_vars

(* Page and the locking reads, called by a caller that keeps a scope slice
   with spare capacity and passes it whole *)

SliceContents == {<<>>, <<Where("age = 1")>>}

\* make([]Scope, len, cap): the entries after the length are nil.
Slices ==
    {[arr |-> c \o spare, len |-> Len(c)] :
        c \in SliceContents, spare \in SeqsUpTo({NilScope}, MaxScopes)}

SliceLists == SliceContents \cup {<<Order("id DESC")>>}

InitSlice ==
    /\ cfg = [soft |-> TRUE, allowGlobal |-> FALSE, db |-> Session]
    /\ table \in {t \in Tables : \A id \in DOMAIN t : ~t[id].deleted}
    /\ txn = NoTxn
    /\ call = Idle
    /\ pg = NoPage
    /\ slice \in Slices

NextSlice ==
    \/ call = Idle /\ ~pg.active
          /\ \E tx \in Handles, scopes \in SliceLists : FirstForUpdate(tx, scopes)
    \/ call = Idle /\ ~pg.active
          /\ \E tx \in Handles, scopes \in SliceLists : FindForUpdate(tx, scopes)
    \/ call = Idle /\ ~pg.active
          /\ \E page \in {1, 2}, scopes \in SliceLists : PageCount(page, 1, scopes)
    \/ PageFetch
    \/ Return

SpecSlice == InitSlice /\ [][NextSlice]_vars

(* The reads, called from inside the callback of Transact after it has
   written on the transaction's handle, and outside it *)

InTxLists == {<<>>, <<Where("age = 1")>>}

InitInTx ==
    /\ Init
    /\ cfg = [soft |-> TRUE, allowGlobal |-> FALSE, db |-> Session]
    /\ \A id \in DOMAIN table : ~table[id].deleted

NextInTx ==
    \/ txn = NoTxn /\ TransactBegin
    \/ call = Idle /\ txn.open /\ \E age \in Ages :
          Create(Tx, [age |-> age, deleted |-> FALSE])
    \/ call = Idle /\ txn.open /\ Delete(Tx, <<WhereEq("id = 1")>>)
    \/ call = Idle /\ ~pg.active /\ \E scopes \in InTxLists : First(scopes)
    \/ call = Idle /\ ~pg.active /\ \E scopes \in InTxLists : List(scopes)
    \/ call = Idle /\ ~pg.active /\ \E scopes \in InTxLists : Count(scopes)
    \/ call = Idle /\ ~pg.active /\ \E scopes \in InTxLists : Exists(scopes)
    \/ call = Idle /\ ~pg.active /\ txn.open
          /\ \E scopes \in InTxLists : FirstForUpdate(Tx, scopes)
    \/ call = Idle /\ ~pg.active /\ txn.open
          /\ \E scopes \in InTxLists : FindForUpdate(Tx, scopes)
    \/ call = Idle /\ ~pg.active
          /\ \E scopes \in InTxLists : PageCount(1, 1, scopes)
    \/ PageFetch
    \/ \E fnErr \in {NoError, FnError} : TransactEnd(fnErr)
    \/ Return

SpecInTx == InitInTx /\ [][NextInTx]_vars

(* The six writes on the Repository's own handle, over tables that hold
   marked and unmarked rows *)

PartScopeLists ==
    {<<WhereEq("id = 1")>>, <<Where("age = 1")>>, <<WithDeleted>>,
     <<Where("age = 1"), OnlyDeleted>>}

InitPart == Init /\ cfg = [soft |-> TRUE, allowGlobal |-> FALSE, db |-> Session]

NextPart ==
    \/ call = Idle /\ \E ent \in Rows : Create(NilTx, ent)
    \/ call = Idle /\ \E ent \in Entities : Update(NilTx, ent)
    \/ call = Idle /\ \E v \in Ages, scopes \in PartScopeLists :
          UpdateColumn(NilTx, v, scopes)
    \/ call = Idle /\ \E v \in Ages, scopes \in PartScopeLists :
          UpdateColumns(NilTx, [age |-> v], scopes)
    \/ call = Idle /\ \E scopes \in PartScopeLists : Delete(NilTx, scopes)
    \/ call = Idle /\ \E ents \in EntityLists, batchSize \in {<<>>, <<1>>} :
          BatchInsert(NilTx, ents, batchSize)
    \/ Return

SpecPart == InitPart /\ [][NextPart]_vars

(* Page after page over a table that does not change, up to the page
   numbers where page * pageSize leaves the int range *)

CoverPages == {1, 2, 3, MaxInt \div 2 + 1}

CoverLists ==
    {<<>>, <<Where("age = 1")>>, <<Order("id DESC")>>,
     <<Where("age = 1"), Order("id DESC")>>}

InitCover ==
    /\ Init
    /\ cfg = [soft |-> TRUE, allowGlobal |-> FALSE, db |-> Session]
    /\ \A id \in DOMAIN table : ~table[id].deleted

NextCover ==
    \/ call = Idle /\ ~pg.active
          /\ \E page \in CoverPages, pageSize \in {1, 2}, scopes \in CoverLists :
                PageCount(page, pageSize, scopes)
    \/ call = Idle /\ ~pg.active /\ \E scopes \in CoverLists : List(scopes)
    \/ PageFetch
    \/ Return

SpecCover == InitCover /\ [][NextCover]_vars

----------------------------------------------------------------------------
(* Properties *)

Guarded == {"UpdateColumn", "UpdateColumns", "Delete"}

AllNil(scopes) == \A i \in 1..Len(scopes) : scopes[i] = NilScope

\* C1: UpdateColumn, UpdateColumns and Delete return ErrDangerous whenever
\* the scope list holds no non-nil Scope (empty, or nil scopes only), for
\* every tx.
C1_DangerousWithoutNonNilScope ==
    (call.op \in Guarded /\ AllNil(call.scopes)) => call.err = ErrDangerous

\* C2: called with zero scopes, Delete, UpdateColumn and UpdateColumns
\* return ErrDangerous, hand no statement to the collaborator and leave
\* every row, committed or in the transaction, as it was.
C2_ZeroScopesTouchNothing ==
    [][(call'.op \in Guarded /\ call'.scopes = <<>> /\ call = Idle)
        => /\ call'.err = ErrDangerous
           /\ call'.stmts = <<>>
           /\ table' = table
           /\ txn' = txn]_vars

C2_Witness ==
    /\ call.op = "Delete"
    /\ call.scopes = <<>>
    /\ call.tx = Tx
    /\ call.err = ErrDangerous
    /\ cfg.allowGlobal
    /\ DOMAIN table = 1..MaxRows

\* C3: whenever UpdateColumn, UpdateColumns or Delete reaches the
\* collaborator, the statement it issues carries at least one row-filter
\* condition contributed by the caller's scopes.
C3_IssuedMutationIsFiltered ==
    (call.op \in Guarded /\ call.stmts # <<>>) => call.stmts[1].conds # <<>>

\* C5: FirstForUpdate and FindForUpdate called with a nil transaction
\* handle return ErrTxRequired with a zero entity / no items and hand no
\* statement to the collaborator, for every scope list.
C5_NilTxRequiresTransaction ==
    (call.op \in {"FirstForUpdate", "FindForUpdate"} /\ call.tx = NilTx)
    => /\ call.err = ErrTxRequired
       /\ call.items = <<>>
       /\ ~call.found
       /\ call.stmts = <<>>

C5_Witness ==
    /\ call.op = "FindForUpdate"
    /\ call.tx = NilTx
    /\ call.err = ErrTxRequired
    /\ Len(call.scopes) = MaxScopes
    /\ MatchIds(sc(call.scopes), table) # {}

\* C6: NewRepo[T] returns ErrInvalidType and a nil Repo for every T that is
\* a pointer or any other non-struct kind, and a non-nil Repo with nil error
\* for every struct type T.
C6_NewRepoValidatesKind ==
    call.op = "NewRepo"
    => IF call.kind = "struct"
       THEN call.err = NoError /\ call.found
       ELSE call.err = ErrInvalidType /\ ~call.found

\* C7: First and FirstForUpdate (with non-nil tx) return ErrNotFound
\* exactly when the statement is well-formed and no matching row is left to
\* return; a statement the database rejects returns the database's error,
\* never ErrNotFound; otherwise the first matching row comes back with nil
\* error.
C7_NotFoundOnlyForNoRows ==
    (call.op \in {"First", "FirstForUpdate"} /\ call.stmts # <<>>)
    => LET q == call.stmts[1]
           hit == MatchIds(q, TableOf(q.h))
           left == IF q.offset > 0 THEN Cardinality(hit) - q.offset
                   ELSE Cardinality(hit)
       IN  /\ call.err = ErrNotFound <=> (~Malformed(q) /\ left <= 0)
           /\ Malformed(q) => call.err = ErrDatabase
           /\ (~Malformed(q) /\ left > 0)
              => /\ call.err = NoError
                 /\ Len(call.items) = 1
                 /\ \E id \in hit : call.items[1] = Entity(q, id, TableOf(q.h)[id])
           /\ call.err # NoError => call.items = <<>>

C7_Witness ==
    /\ call.op = "First"
    /\ call.err = ErrNotFound
    /\ call.scopes = <<Where("age = 1")>>
    /\ DOMAIN table = 1..MaxRows

\* C8: Page normalizes every int input: page <= 0 becomes 1, pageSize <= 0
\* becomes 20, pageSize > 1000 becomes 1000; a returned PageResult has
\* Page >= 1 and 1 <= PageSize <= 1000, and the fetch is issued with
\* Limit = PageSize.
C8_PageNormalizes ==
    call.op = "Page"
    => LET page == call.args[1]
           pageSize == call.args[2]
           p == IF page <= 0 THEN 1 ELSE page
           ps == IF pageSize <= 0 THEN 20
                 ELSE IF pageSize > 1000 THEN 1000 ELSE pageSize
       IN  /\ call.err = NoError
              => /\ call.page = p /\ call.pageSize = ps
                 /\ call.page >= 1
                 /\ call.pageSize >= 1 /\ call.pageSize <= 1000
           /\ Len(call.stmts) = 2
              => call.stmts[2].verb = "Find" /\ call.stmts[2].limit = ps

C8_Witness ==
    /\ call.op = "Page"
    /\ call.args = <<0, 1001>>
    /\ call.scopes = <<Limit(1)>>
    /\ call.err = NoError
    /\ call.pageSize = 1000
    /\ Len(call.items) = MaxRows

\* C9: for every int page and pageSize, HasNext is true exactly when the
\* normalized page times the normalized pageSize, as a mathematical integer,
\* is less than Total, and the offset of the fetch is (page - 1) * pageSize
\* and never negative.
C9_HasNextAndOffsetExact ==
    (call.op = "Page" /\ call.err = NoError)
    => /\ call.hasNext <=> (call.page * call.pageSize < call.total)
       /\ call.stmts[2].offset = (call.page - 1) * call.pageSize
       /\ call.stmts[2].offset >= 0

HasWindow(scopes) ==
    \E i \in 1..Len(scopes) : scopes[i].kind \in {"Limit", "Offset"}

Min(a, b) == IF a < b THEN a ELSE b

Max(a, b) == IF a < b THEN b ELSE a

\* The rows of the scoped result at positions [lo, lo + n).
Slice(seq, lo, n) ==
    IF lo >= Len(seq) THEN <<>> ELSE SubSeq(seq, lo + 1, Min(lo + n, Len(seq)))

\* C10: with the table unchanged between the two queries and no Limit or
\* Offset among the scopes, Page returns Total = Count(scopes) and Items =
\* the rows of the scoped result at positions [(page-1)*pageSize,
\* page*pageSize); a page beyond the last returns no items and HasNext =
\* false.
C10_PageIsTheSlice ==
    (call.op = "Page" /\ call.err = NoError /\ call.stable
        /\ ~HasWindow(call.scopes))
    => LET q == sc(call.scopes)
           all == SortedIds(MatchIds(q, table), Descending(q))
           lo == (call.page - 1) * call.pageSize
       IN  /\ call.total = Len(all)
           /\ call.items = Hydrate(q, Slice(all, lo, call.pageSize), table)
           /\ Len(call.items)
                = Min(call.pageSize, Max(0, call.total - lo))
           /\ lo >= call.total => (call.items = <<>> /\ ~call.hasNext)

\* C4 (as claimed): after Transact returns fn's non-nil error every write fn
\* performed is rolled back; after fn returned nil every write is committed
\* and Transact returns nil; the table never reflects only part of fn's
\* writes.
C4_TransactAllOrNothing ==
    call.op = "Transact"
    => IF call.cb # NoError
       THEN call.err = call.cb /\ table = txn.base
       ELSE call.err = NoError /\ table = txn.shadow

\* C4 (amended): Transact is atomic over the writes fn made on the
\* transaction's handle.  When fn returns an error, Transact returns that
\* error and the table holds none of them: it is the table as Transact found
\* it, changed only by the writes fn made with a nil tx.  When fn returns
\* nil, Transact returns nil and the table holds every write fn made.
C4_TransactAtomicOnTx ==
    call.op = "Transact"
    => /\ call.err = call.cb
       /\ call.cb # NoError => table = Overlay(txn.base, txn.direct)
       /\ call.cb = NoError => table = txn.shadow

C4_Witness ==
    /\ call.op = "Transact"
    /\ call.err = FnError
    /\ txn.delta # EmptyTable
    /\ txn.direct # EmptyTable
    /\ table # txn.base
    /\ table # txn.shadow

\* C11: Page reads the table twice with no shared snapshot: Total is the
\* count over the rows as they were at the count, Items are the fetch over the
\* rows as they are at the fetch, whatever other callers committed in
\* between.  The witness is a returned PageResult with more Items than
\* Total - offset, and with HasNext = false while a further matching row is
\* in the table.
C11_PageReadsTwice ==
    [][(pg.active /\ call'.op = "Page" /\ call'.err = NoError)
        => /\ call'.total = CollabCount(call'.stmts[1], pg.seen).total
           /\ call'.items = CollabFind(call'.stmts[2], table).items]_vars

C11_Witness ==
    /\ call.op = "Page"
    /\ call.err = NoError
    /\ ~call.stable
    /\ Len(call.items) > call.total - call.stmts[2].offset
    /\ ~call.hasNext
    /\ Cardinality(MatchIds(call.stmts[1], table)) > call.page * call.pageSize

\* A Delete that has just run on a statement the collaborator accepted.
Deleted == call = Idle /\ call'.op = "Delete" /\ call'.err = NoError

ById == WhereEq("id = 1")

Returns(r, id) == r.err = NoError /\ Len(r.items) = 1 /\ r.items[1].id = id

\* C12: on an entity type with a deletion marker, once Delete has matched
\* the row with id 1: First, List and Count without WithDeleted or OnlyDeleted
\* do not return that row (First by its key gives ErrNotFound), while First
\* by its key with WithDeleted, and with OnlyDeleted, returns it with nil
\* error.
C12_SoftDeletedRowVisibility ==
    [][(Deleted /\ cfg.soft /\ 1 \in MatchIds(call'.stmts[1], table))
        => /\ FirstOn(<<ById>>, table').err = ErrNotFound
           /\ \A scopes \in {<<>>, <<Where("age = 1")>>, <<Order("id DESC")>>} :
                /\ ~Returns(FirstOn(scopes, table'), 1)
                /\ LET l == CollabFind(sc(scopes), table').items
                   IN  \A i \in 1..Len(l) : l[i].id # 1
                /\ CollabCount(sc(scopes), table').total
                     = Cardinality(MatchIds(sc(scopes), table') \ {1})
           /\ Returns(FirstOn(<<WithDeleted, ById>>, table'), 1)
           /\ Returns(FirstOn(<<OnlyDeleted, ById>>, table'), 1)]_vars

\* C13: Delete on an entity type with a deletion marker is a soft delete for
\* every non-empty scope list, WithDeleted and OnlyDeleted included: every
\* matched row stays in the table with its marker set, no row is removed and
\* no other row changes.  Without the marker the matched rows are removed.
C13_DeleteIsSoftWhenMarked ==
    [][Deleted
        => LET hit == MatchIds(call'.stmts[1], table)
           IN  IF cfg.soft
               THEN /\ DOMAIN table' = DOMAIN table
                    /\ \A id \in hit : table'[id] = [table[id] EXCEPT !.deleted = TRUE]
                    /\ \A id \in DOMAIN table \ hit : table'[id] = table[id]
               ELSE /\ DOMAIN table' = DOMAIN table \ hit
                    /\ \A id \in DOMAIN table' : table'[id] = table[id]]_vars

Visibility == {<<ById>>, <<WithDeleted, ById>>, <<OnlyDeleted, ById>>}

\* C14: on an entity type without a deletion marker the visibility scopes
\* make no difference: before the Delete of the row with id 1, First by its
\* key returns it with no visibility scope, with WithDeleted and with
\* OnlyDeleted; after it, all three give ErrNotFound.
C14_HardDeleteNoDistinction ==
    [][(Deleted /\ ~cfg.soft /\ 1 \in MatchIds(call'.stmts[1], table))
        => \A scopes \in Visibility :
              /\ Returns(FirstOn(scopes, table), 1)
              /\ FirstOn(scopes, table').err = ErrNotFound]_vars

Writes ==
    {"Create", "Update", "UpdateColumn", "UpdateColumns", "Delete",
     "BatchInsert"}

\* C15: each of the six writes runs every statement it issues on tx when tx
\* is not nil and on the Repository's own handle when tx is nil.  A write on
\* the handle of the open transaction leaves the committed rows as they are
\* and lands in the transaction; a write with nil tx changes the committed
\* rows at once and never the transaction's own writes.  When Transact ends,
\* the transaction's writes reach the committed rows if it commits and are
\* discarded if it rolls back, and the nil-tx writes stay either way.
C15_WritesRunOnTheGivenHandle ==
    [][/\ (call = Idle /\ call'.op \in Writes)
          => /\ \A i \in 1..Len(call'.stmts) :
                  call'.stmts[i].h
                    = IF call'.tx # NilTx THEN call'.tx ELSE RepoDB
             /\ (call'.tx # NilTx /\ txn.open)
                => /\ table' = table
                   /\ txn'.direct = txn.direct
                   /\ Overlay(table', txn'.delta) = txn'.shadow
             /\ call'.tx = NilTx
                => /\ txn'.delta = txn.delta
                   /\ txn.open => table' = Overlay(txn'.base, txn'.direct)
       /\ (call = Idle /\ call'.op = "Transact")
          => table' = IF call'.cb = NoError
                      THEN Overlay(Overlay(txn.base, txn.direct), txn.delta)
                      ELSE Overlay(txn.base, txn.direct)]_vars

C15_Witness ==
    /\ call.op = "BatchInsert"
    /\ call.tx = Tx
    /\ call.err = NoError
    /\ call.stmts # <<>>
    /\ txn.open
    /\ txn.direct # EmptyTable
    /\ table = Overlay(txn.base, txn.direct)
    /\ table # txn.base
    /\ table # txn.shadow

\* The list with its nil entries removed.
Strip(scopes) == SelectSeq(scopes, LAMBDA s : s # NilScope)

\* The scopes an operation adds after the caller's.
Added(c, i) ==
    CASE c.op = "Exists" -> <<Limit(1)>>
      [] c.op \in {"FirstForUpdate", "FindForUpdate"} -> <<Locking>>
      [] c.op = "Page" /\ i = 2 ->
            <<Limit(NormalizePageSize(c.args[2])),
              Offset(PageOffset(NormalizePage(c.args[1]),
                                NormalizePageSize(c.args[2])))>>
      [] OTHER -> <<>>

Scoped ==
    {"UpdateColumn", "UpdateColumns", "Delete", "First", "List", "Count",
     "Exists", "FirstForUpdate", "FindForUpdate", "Page"}

\* C16: every operation called with a list that has nil entries builds the
\* query, and returns the result, of the same call with those entries
\* removed: a call that with the shorter list is refused before any statement
\* is built is refused, and every statement issued is the base on the call's
\* handle with exactly the non-nil scopes applied, each once, in order.
C16_NilScopesAreSkipped ==
    (call.op \in Scoped /\ call.err # ErrTxRequired)
    => IF call.op \in Guarded /\ Strip(call.scopes) = <<>>
       THEN call.err = ErrDangerous /\ call.stmts = <<>>
       ELSE \A i \in 1..Len(call.stmts) :
               call.stmts[i]
                 = [ApplyScopes(Model(call.stmts[i].h),
                                Strip(call.scopes) \o Added(call, i))
                      EXCEPT !.verb = call.stmts[i].verb]

\* The scopes behind statement i of a returned call: the caller's non-nil
\* scopes, then the ones the operation adds.
Behind(i) == Strip(call.scopes) \o Added(call, i)

OfKind(scopes, kinds) == SelectSeq(scopes, LAMBDA s : s.kind \in kinds)

Args(scopes) == [i \in 1..Len(scopes) |-> scopes[i].c]

View(tx, tbl, t) == IF tx = Tx /\ t.open THEN Overlay(tbl, t.delta) ELSE tbl

\* C19: BatchInsert of an empty list returns nil, issues no statement and
\* writes nothing, for every tx and batchSize.  Of a non-empty list, with
\* batchSize omitted or 0 the chunk size is 1000, and with every positive
\* chunk size it returns nil, issues one insert per chunk of that size and
\* leaves the rows its handle sees as they were plus one row per entity, in
\* order: the same rows for every batchSize.
C19_BatchInsertChunks ==
    [][(call = Idle /\ call'.op = "BatchInsert")
        => LET c == call'
               n == c.args[1]
               batchSize == Tail(c.args)
               size == IF batchSize = <<>> \/ batchSize[1] = 0 THEN 1000
                       ELSE batchSize[1]
           IN  /\ n = 0
                  => /\ c.err = NoError
                     /\ c.stmts = <<>>
                     /\ table' = table
                     /\ txn' = txn
               /\ (n > 0 /\ size > 0)
                  => /\ c.err = NoError
                     /\ c.size = size
                     /\ Len(c.stmts) = (n + size - 1) \div size
                     /\ Len(c.items) = n
                     /\ View(c.tx, table', txn')
                          = [id \in {c.items[i].id : i \in 1..n} |->
                               LET i == CHOOSE j \in 1..n : c.items[j].id = id
                               IN  [age |-> c.items[i].age, deleted |-> FALSE]]
                            @@ View(c.tx, table, txn)
                     /\ \A i \in 1..n :
                           /\ c.items[i].id \notin DOMAIN View(c.tx, table, txn)
                           /\ \A j \in 1..n : i < j => c.items[i].id < c.items[j].id]_vars

C19_Witness ==
    /\ call.op = "BatchInsert"
    /\ call.tx = Tx
    /\ call.args = <<2, 1>>
    /\ call.err = NoError
    /\ Len(call.stmts) = 2
    /\ Cardinality(DOMAIN Overlay(table, txn.delta)) = Cardinality(DOMAIN table) + 2

\* A Create that has just returned nil.
Created == call = Idle /\ call'.op = "Create" /\ call'.err = NoError

Inserted(t) == {id \in DOMAIN t.delta : t.delta[id].present /\ id \notin DOMAIN t.base}

Issued(q) ==
    LET tbl == TableOf(q.h)
    IN  CASE q.verb = "Find" -> CollabFind(q, tbl).err
          [] q.verb = "First" -> CollabFirst(q, tbl).err
          [] q.verb = "Count" -> CollabCount(q, tbl).err
          [] q.verb \in {"Update", "Updates"} -> CollabUpdate(q, 1, tbl).err
          [] q.verb = "Delete" -> CollabDelete(q, tbl).err
          [] OTHER -> NoError

\* The error the caller is given for a collaborator error: the error itself,
\* but for the not-found error of First and FirstForUpdate.
Propagated(op, err) ==
    IF op \in {"First", "FirstForUpdate"} /\ err = ErrRecordNotFound
    THEN ErrNotFound ELSE err

\* C24: errors are propagated, never retried or swallowed: every operation
\* makes each of its collaborator calls at most once (one statement, for Page
\* a count and then a fetch); when a statement fails it is the last one
\* issued, its error is what the caller gets (for First and FirstForUpdate
\* the collaborator's record-not-found as ErrNotFound), nothing is written,
\* and the result is the zero value: no items from List, FindForUpdate and
\* Page, total 0 from Count and Page, false from Exists, no page, page size
\* or HasNext; when no statement fails the call returns nil error.
C24_ErrorsPropagate ==
    [][(call = Idle /\ call' # Idle /\ call'.stmts # <<>>)
       => LET c == call'
              n == Len(c.stmts)
              failed == {i \in 1..n : Issued(c.stmts[i]) # NoError}
          IN  /\ n <= IF c.op = "Page" THEN 2 ELSE 1
              /\ (c.op = "Page" /\ n = 2)
                 => c.stmts[1].verb = "Count" /\ c.stmts[2].verb = "Find"
              /\ failed # {}
                 => /\ failed = {n}
                    /\ c.err = Propagated(c.op, Issued(c.stmts[n]))
                    /\ c.items = <<>> /\ c.total = 0 /\ ~c.found
                    /\ ~c.hasNext /\ c.page = 0 /\ c.pageSize = 0
                    /\ table' = table /\ txn' = txn
              /\ failed = {} => c.err = NoError]_vars

\* A Page whose count succeeded, with a total, and whose fetch failed has
\* returned the error and the zero PageResult.
C24_Witness ==
    /\ call.op = "Page" /\ call.err = ErrDatabase /\ Len(call.stmts) = 2
    /\ CollabCount(call.stmts[1], table).total > 0
    /\ call.total = 0 /\ call.items = <<>>

\* No row the handle sees satisfies the conditions of any statement of c.
MatchesNothing(c) ==
    \A i \in 1..Len(c.stmts) :
        MatchIds(c.stmts[i], TableOf(c.stmts[i].h)) = {}

\* C25: zero matching rows is an error only for First and FirstForUpdate,
\* which return ErrNotFound: when the scopes of a call that reaches the
\* collaborator match no row, List and FindForUpdate return no items, Count
\* 0, Exists false and Page an empty page with total 0, all with nil error,
\* and UpdateColumn, UpdateColumns and Delete return nil and change nothing;
\* none of these operations ever returns ErrNotFound.
C25_ZeroRowsIsNoError ==
    [][(call = Idle /\ call' # Idle /\ call'.op \in Scoped)
       => LET c == call'
          IN  /\ c.op \notin {"First", "FirstForUpdate"} => c.err # ErrNotFound
              /\ (c.stmts # <<>> /\ MatchesNothing(c))
                 => IF c.op \in {"First", "FirstForUpdate"}
                    THEN c.err = ErrNotFound
                    ELSE /\ c.err = NoError
                         /\ c.items = <<>> /\ c.total = 0
                         /\ ~c.found /\ ~c.hasNext
                         /\ table' = table /\ txn' = txn]_vars

\* C26: Page, FirstForUpdate and FindForUpdate never modify the slice the
\* caller passed, nor its backing array up to its capacity, when they append
\* their own Limit, Offset and locking scopes, and each call executes with
\* the caller's scopes followed by its own Limit, Offset and lock.
C26_CallerSliceUntouched ==
    [][(call' # call /\ call'.op \in {"Page", "FirstForUpdate", "FindForUpdate"})
       => /\ slice' = slice
          /\ \A i \in 1..Len(call'.stmts) :
                call'.stmts[i]
                  = [ApplyScopes(NewStatement(call'.stmts[i].h),
                                 Strip(call'.scopes) \o Added(call', i))
                       EXCEPT !.verb = call'.stmts[i].verb]]_vars

\* C27: for every batchSize argument, negative values and extra trailing
\* values included, the chunk size BatchInsert hands to the collaborator's
\* batched insert is at least 1: the first supplied value when it is
\* positive, 1000 otherwise.
C27_ChunkSizeAtLeastOne ==
    (call.op = "BatchInsert" /\ call.args[1] > 0)
    => LET batchSize == Tail(call.args)
       IN  /\ call.size >= 1
           /\ call.size = IF batchSize # <<>> /\ batchSize[1] > 0
                          THEN batchSize[1] ELSE 1000

\* C28: First, List, Count, Exists and Page always execute on the
\* Repository's own handle: every statement they issue is on it, and what
\* they return, from inside the callback of Transact too, is what the
\* committed rows give, without the writes the callback has made on the
\* transaction's handle; they leave the transaction as it is, and the count
\* and the fetch of Page each read the rows committed at their own time.
\* FirstForUpdate and FindForUpdate issue their statement on the tx and
\* read the rows as the transaction sees them.
C28_ReadsRunOutsideTheTransaction ==
    [][/\ (call = Idle /\ call'.op \in {"First", "List", "Count", "Exists", "Page"})
          => LET c == call'
             IN  /\ \A i \in 1..Len(c.stmts) : c.stmts[i].h = RepoDB
                 /\ txn' = txn /\ table' = table
                 /\ c.op = "First"
                    => /\ c.err = FirstOn(c.scopes, table).err
                       /\ c.items = FirstOn(c.scopes, table).items
                 /\ c.op = "Count"
                    => c.total = Cardinality(MatchIds(c.stmts[1], table))
                 /\ c.op = "Exists"
                    => c.found = (MatchIds(c.stmts[1], table) # {})
                 /\ c.op = "List"
                    => {c.items[i].id : i \in 1..Len(c.items)}
                         = MatchIds(c.stmts[1], table)
                 /\ (c.op = "Page" /\ c.err = NoError)
                    => /\ {c.items[i].id : i \in 1..Len(c.items)}
                            \subseteq MatchIds(c.stmts[2], table)
                       /\ Len(c.items)
                            = Min(1, Cardinality(MatchIds(c.stmts[2], table)))
       /\ (~pg.active /\ pg'.active)
          => /\ pg'.stmt.h = RepoDB
             /\ pg'.total = Cardinality(MatchIds(pg'.stmt, table))
             /\ txn' = txn
       /\ (call = Idle /\ call'.op \in {"FirstForUpdate", "FindForUpdate"}
             /\ call'.stmts # <<>>)
          => /\ call'.stmts[1].h = call'.tx
             /\ {call'.items[i].id : i \in 1..Len(call'.items)}
                  \subseteq MatchIds(call'.stmts[1], View(call'.tx, table, txn))
             /\ call'.op = "FindForUpdate"
                => Len(call'.items)
                     = Cardinality(MatchIds(call'.stmts[1],
                                            View(call'.tx, table, txn)))]_vars

\* Inside the callback, after it has created a row on the transaction's
\* handle, List has returned the committed rows without that row.
C28_Witness ==
    /\ txn.open
    /\ DOMAIN txn.delta \ DOMAIN table # {}
    /\ call.op = "List" /\ call.scopes = <<>> /\ call.err = NoError
    /\ table # EmptyTable
    /\ {call.items[i].id : i \in 1..Len(call.items)} = DOMAIN table

\* The ids of the rows List returns for a scope list on the rows tbl.
ListedIds(scopes, tbl) ==
    LET r == CollabFind(sc(scopes), tbl)
    IN  {r.items[i].id : i \in 1..Len(r.items)}

\* The visibility scopes split the rows tbl that the scopes more match.
Partitions(more, tbl) ==
    LET all == CountOn(more \o <<WithDeleted>>, tbl)
        live == CountOn(more, tbl)
        gone == CountOn(more \o <<OnlyDeleted>>, tbl)
    IN  /\ all.err = NoError /\ live.err = NoError /\ gone.err = NoError
        /\ all.total = live.total + gone.total
        /\ \A id \in ListedIds(more \o <<OnlyDeleted>>, tbl) : tbl[id].deleted
        /\ \A id \in ListedIds(more, tbl) : ~tbl[id].deleted
        /\ ListedIds(more \o <<WithDeleted>>, tbl)
             = ListedIds(more, tbl) \cup ListedIds(more \o <<OnlyDeleted>>, tbl)

\* C29: on an entity type with a deletion marker, after any sequence of
\* Create, BatchInsert, Update, UpdateColumn, UpdateColumns and Delete:
\* Count with WithDeleted is
\* Count without it plus Count with OnlyDeleted, OnlyDeleted returns no row
\* whose marker is unset and a default query no row whose marker is set;
\* and after a Delete has returned nil, the same statement applied again to
\* the rows its handle sees changes none of them.
C29_VisibilityPartition ==
    [][/\ \A more \in {<<>>, <<Where("age = 1")>>} :
             Partitions(more, table) /\ Partitions(more, table')
       /\ (call = Idle /\ call'.op = "Delete" /\ call'.stmts # <<>>
             /\ call'.err = NoError)
          => LET after == View(call'.tx, table', txn')
                 again == CollabDelete(call'.stmts[1], after)
             IN  again.err = NoError /\ again.tbl = after]_vars

\* A Delete has marked a row: the table holds a marked and an unmarked row.
C29_Witness ==
    /\ call.op = "Delete" /\ call.err = NoError /\ call.tx = NilTx
    /\ call.scopes = <<WhereEq("id = 1")>>
    /\ 1 \in DOMAIN table /\ table[1].deleted
    /\ \E id \in DOMAIN table : ~table[id].deleted
    /\ CountOn(<<OnlyDeleted>>, table).total = 1
    /\ CountOn(<<>>, table).total >= 1

\* The items of pages p, p + 1, ... up to the first page whose HasNext is
\* false, one after the other.
RECURSIVE PagesFrom(_, _, _, _)
PagesFrom(p, pageSize, scopes, tbl) ==
    LET r == PageOn(p, pageSize, scopes, tbl)
    IN  IF r.hasNext /\ p <= MaxRows + 1
        THEN r.items \o PagesFrom(p + 1, pageSize, scopes, tbl)
        ELSE r.items

\* C30: pagination covers the result exactly once: with the table unchanged,
\* no Limit or Offset among the scopes and the rows ordered by the scopes or
\* by the key, the Items of Page(1), Page(2), ... up to the first page with
\* HasNext = false, one after the other, are List(scopes), and HasNext is
\* true on page p exactly when Page(p + 1) returns at least one item.
C30_PaginationCoversOnce ==
    (call.op = "Page" /\ call.err = NoError /\ call.stable
        /\ ~HasWindow(call.scopes))
    => LET pageSize == call.args[2]
           next == PageOn(call.page + 1, pageSize, call.scopes, table)
       IN  /\ call.hasNext <=> (next.items # <<>>)
           /\ call.page = 1
              => call.items
                   \o (IF call.hasNext
                       THEN PagesFrom(2, pageSize, call.scopes, table)
                       ELSE <<>>)
                 = CollabFind(sc(call.scopes), table).items

====
